---- MODULE Spec2Model ----
(***************************************************************************)
(* Model of the interactive Mandelbrot viewer: the viewport controller of  *)
(* src/src/index.ts (class MandelbrotSet) driving the WebGL renderer       *)
(* (class WebGLMandelbrotRenderer, src/unnamed/part_004 lines 1531-1860).  *)
(*                                                                         *)
(* JavaScript numbers are modelled as exact rationals <<n, d>> in lowest   *)
(* terms with d > 0, extended with the three non-finite values a division  *)
(* by zero produces: <<1, 0>> (Infinity), <<-1, 0>> (-Infinity) and        *)
(* <<0, 0>> (NaN).  Rounding of IEEE doubles and the sign of zero are not  *)
(* modelled.                                                               *)
(***************************************************************************)
EXTENDS Integers, Sequences, FiniteSets, TLC

VARIABLES renderer, frames, isDragging, lastX, lastY, interactionMode,
          selectionStart, selectionRect, tooltip, wheelForm, lastOp, pre, steps,
          pixel, app

vars == <<renderer, frames, isDragging, lastX, lastY, interactionMode,
          selectionStart, selectionRect, tooltip, wheelForm, lastOp, pre, steps,
          pixel, app>>

\* The variables of the viewer; pixel is the one pixel whose evaluation is
\* followed, app the start-up of the page.
viewerVars == <<renderer, frames, isDragging, lastX, lastY, interactionMode,
                selectionStart, selectionRect, tooltip, wheelForm, lastOp, pre, steps,
                app>>

\* ------------------------------------------------------------------------
\* Bounds of the exploration
\* ------------------------------------------------------------------------
MaxSteps == 3

\* ------------------------------------------------------------------------
\* JavaScript number arithmetic
\* ------------------------------------------------------------------------
RECURSIVE GCD(_, _)
GCD(a, b) == IF b = 0 THEN a ELSE GCD(b, a % b)

AbsInt(n) == IF n < 0 THEN -n ELSE n

SignInt(n) == IF n > 0 THEN 1 ELSE IF n < 0 THEN -1 ELSE 0

Norm(n, d) ==
    IF d = 0 THEN <<SignInt(n), 0>>
    ELSE LET g == GCD(AbsInt(n), AbsInt(d))
             s == IF d < 0 THEN -1 ELSE 1
         IN  <<(s * n) \div g, (s * d) \div g>>

Num(i) == <<i, 1>>
Frac(n, d) == Norm(n, d)
NaN == <<0, 0>>
IsFinite(a) == a[2] # 0
IsNaN(a) == a = NaN

Add(a, b) ==
    IF a[2] = 0 /\ b[2] = 0
    THEN (IF a = b THEN a ELSE NaN)
    ELSE IF a[2] = 0 THEN a
    ELSE IF b[2] = 0 THEN b
    ELSE LET g == GCD(a[2], b[2])
         IN  Norm(a[1] * (b[2] \div g) + b[1] * (a[2] \div g), (a[2] \div g) * b[2])

Neg(a) == <<-a[1], a[2]>>
Sub(a, b) == Add(a, Neg(b))
Mul(a, b) ==
    IF a[2] = 0 \/ b[2] = 0
    THEN <<SignInt(a[1]) * SignInt(b[1]), 0>>
    ELSE LET g1 == GCD(AbsInt(a[1]), b[2])
             g2 == GCD(AbsInt(b[1]), a[2])
         IN  Norm((a[1] \div g1) * (b[1] \div g2), (a[2] \div g2) * (b[2] \div g1))
Inv(a) == Norm(a[2], a[1])
Div(a, b) == Mul(a, Inv(b))

Lt(a, b) == Sub(b, a)[1] > 0
Gt(a, b) == Lt(b, a)
Le(a, b) == ~IsNaN(a) /\ ~IsNaN(b) /\ ~Lt(b, a)

MathMin(a, b) == IF IsNaN(a) \/ IsNaN(b) THEN NaN ELSE IF Lt(b, a) THEN b ELSE a
MathFloor(a) == a[1] \div a[2]


\* ------------------------------------------------------------------------
\* WebGLMandelbrotRenderer  (src/unnamed/part_004, lines 1531-1860)
\* ------------------------------------------------------------------------
\* enum ColorScheme
Rainbow == 0
Grayscale == 1
Fire == 2

\* Dynamic resolution settings (private fields of the renderer)
baseResolutionFactor == Num(1)
maxResolutionFactor == Num(2)
zoomThreshold == Num(100)

\* The renderer object together with the canvas it draws on.  canvasWidth
\* and canvasHeight are canvas.width / canvas.height (the backing store),
\* clientWidth and clientHeight the display size in CSS pixels.
NewRenderer(config, cw, ch) ==
    [viewportX |-> Frac(-1, 2), viewportY |-> Num(0), zoom |-> Num(1),
     config |-> config,
     canvasWidth |-> cw, canvasHeight |-> ch,
     clientWidth |-> cw, clientHeight |-> ch]

\* calculateResolutionFactor that jumps to the maximum above the threshold
calculateResolutionFactor_Jump(r) ==
    IF Le(r.zoom, zoomThreshold) THEN baseResolutionFactor ELSE maxResolutionFactor

calculateResolutionFactor(r) ==
    IF Le(r.zoom, zoomThreshold)
    THEN baseResolutionFactor
    ELSE LET zoomRatio == MathMin(Div(r.zoom, zoomThreshold), maxResolutionFactor)
         IN  MathMin(Mul(baseResolutionFactor, zoomRatio), maxResolutionFactor)

\* resizeCanvasToDisplaySize that scales the backing size it finds
resizeCanvasToDisplaySize_Compound(r) ==
    LET resolutionFactor == calculateResolutionFactor(r)
        targetWidth == MathFloor(Mul(Num(r.canvasWidth), resolutionFactor))
        targetHeight == MathFloor(Mul(Num(r.canvasHeight), resolutionFactor))
    IN  IF r.canvasWidth # targetWidth \/ r.canvasHeight # targetHeight
        THEN [r EXCEPT !.canvasWidth = targetWidth, !.canvasHeight = targetHeight]
        ELSE r

resizeCanvasToDisplaySize(r) ==
    LET resolutionFactor == calculateResolutionFactor(r)
        targetWidth == MathFloor(Mul(Num(r.clientWidth), resolutionFactor))
        targetHeight == MathFloor(Mul(Num(r.clientHeight), resolutionFactor))
    IN  IF r.canvasWidth # targetWidth \/ r.canvasHeight # targetHeight
        THEN [r EXCEPT !.canvasWidth = targetWidth, !.canvasHeight = targetHeight]
        ELSE r

\* render(): resizes the canvas; the uniforms it binds are Uniforms(render(r)).
render(r) == resizeCanvasToDisplaySize(r)

Uniforms(r) ==
    [resolution |-> <<r.canvasWidth, r.canvasHeight>>,
     viewportCenter |-> <<r.viewportX, r.viewportY>>,
     zoom |-> r.zoom,
     maxIterations |-> r.config.maxIterations,
     colorScheme |-> r.config.colorScheme]

\* { ...this.config, ...config }: the fields present in partial replace
\* those of the stored configuration.
\* A merge that falls back to the defaults for the fields partial lacks
MergeConfig_Defaults(config, partial) ==
    [k \in DOMAIN config |->
        IF k \in DOMAIN partial THEN partial[k]
        ELSE [maxIterations |-> 100, colorScheme |-> Rainbow][k]]

MergeConfig(config, partial) ==
    [k \in DOMAIN config |-> IF k \in DOMAIN partial THEN partial[k] ELSE config[k]]

updateConfig(r, partial) ==
    render([r EXCEPT !.config = MergeConfig(r.config, partial)])

\* updateViewport that restores the default zoom as well
updateViewport_ResetZoom(r, x, y) ==
    render([r EXCEPT !.viewportX = x, !.viewportY = y, !.zoom = Num(1)])

updateViewport(r, x, y) ==
    render([r EXCEPT !.viewportX = x, !.viewportY = y])

\* updateZoom that renders before it stores the zoom
updateZoom_RenderFirst(r, zoom) ==
    [render(r) EXCEPT !.zoom = zoom]

updateZoom(r, zoom) ==
    render([r EXCEPT !.zoom = zoom])

\* pan with the vertical direction as it was before "+=" replaced "-="
pan_SubtractY(r, deltaX, deltaY) ==
    LET aspectRatio == Div(Num(r.canvasWidth), Num(r.canvasHeight))
        fractalWidth == Mul(Div(Num(3), r.zoom), aspectRatio)
        fractalHeight == Div(Num(3), r.zoom)
        fractalDeltaX == Div(Mul(Num(deltaX), fractalWidth), Num(r.canvasWidth))
        fractalDeltaY == Div(Mul(Num(deltaY), fractalHeight), Num(r.canvasHeight))
    IN  render([r EXCEPT !.viewportX = Sub(r.viewportX, fractalDeltaX),
                         !.viewportY = Sub(r.viewportY, fractalDeltaY)])

pan(r, deltaX, deltaY) ==
    LET aspectRatio == Div(Num(r.canvasWidth), Num(r.canvasHeight))
        fractalWidth == Mul(Div(Num(3), r.zoom), aspectRatio)
        fractalHeight == Div(Num(3), r.zoom)
        fractalDeltaX == Div(Mul(Num(deltaX), fractalWidth), Num(r.canvasWidth))
        fractalDeltaY == Div(Mul(Num(deltaY), fractalHeight), Num(r.canvasHeight))
    IN  render([r EXCEPT !.viewportX = Sub(r.viewportX, fractalDeltaX),
                         !.viewportY = Add(r.viewportY, fractalDeltaY)])

\* resetView that forgets to restore the zoom
resetView_KeepZoom(r) ==
    render([r EXCEPT !.viewportX = Frac(-1, 2), !.viewportY = Num(0)])

resetView(r) ==
    render([r EXCEPT !.viewportX = Frac(-1, 2), !.viewportY = Num(0), !.zoom = Num(1)])

getViewport(r) == [x |-> r.viewportX, y |-> r.viewportY, zoom |-> r.zoom]

\* The complex coordinate the fragment shader evaluates at the fragment whose
\* position is (px, py) display pixels from the top-left corner of the canvas
\* element (px, py are numbers).  gl_FragCoord has its origin at the
\* bottom-left corner, so uv = (px / clientWidth, 1 - py / clientHeight).
ShaderCoordinate(r, px, py) ==
    LET aspectRatio == Div(Num(r.canvasWidth), Num(r.canvasHeight))
        complexPlaneHeight == Div(Num(2), r.zoom)
        complexPlaneWidth == Mul(complexPlaneHeight, aspectRatio)
        uvx == Div(px, Num(r.clientWidth))
        uvy == Sub(Num(1), Div(py, Num(r.clientHeight)))
    IN  <<Add(r.viewportX, Mul(Sub(uvx, Frac(1, 2)), complexPlaneWidth)),
          Add(r.viewportY, Mul(Sub(uvy, Frac(1, 2)), complexPlaneHeight))>>

\* ------------------------------------------------------------------------
\* Escape-time evaluation and colouring of one pixel
\*   "shader": fragmentShaderSource of the renderer (part_004, 1376-1515)
\*   "glsl":   fragment.glsl (part_003)
\*   "cpu":    calculateMandelbrot / getColor of the canvas-2d MandelbrotSet
\*             (part_004, 729-766)
\* ------------------------------------------------------------------------
\* A real number that need not be rational: lo = hi is that number, lo < hi
\* is some number strictly between lo and hi.  The smoothed iteration count
\* is a difference of an integer and log2(log2|z|), which is known exactly
\* when it is an integer and otherwise by the two integers around it.
Exact(x) == [lo |-> x, hi |-> x]
Within(a, b) == [lo |-> a, hi |-> b]
IsExact(v) == v.lo = v.hi
RealSub(x, v) == [lo |-> Sub(x, v.hi), hi |-> Sub(x, v.lo)]
RealDiv(v, m) ==
    IF IsExact(v) \/ Gt(m, Num(0))
    THEN [lo |-> Div(v.lo, m), hi |-> Div(v.hi, m)]
    ELSE [lo |-> Div(v.hi, m), hi |-> Div(v.lo, m)]
\* v >= m and v < m for a number m
RealGe(v, m) == Le(m, v.lo)
RealLt(v, m) == IF IsExact(v) THEN Lt(v.lo, m) ELSE Le(v.hi, m)

\* for (int iter = 0; iter < 1000; iter++)
LoopLimit == 1000

\* dot(z, z) > 4.0  /  x*x + y*y <= 4
EscapeThreshold == Num(4)

dot(z) == Add(Mul(z[1], z[1]), Mul(z[2], z[2]))

\* z = zSquared + c
zSquaredPlusC(z, c) ==
    <<Add(Sub(Mul(z[1], z[1]), Mul(z[2], z[2])), c[1]),
      Add(Mul(Num(2), Mul(z[1], z[2])), c[2])>>

\* The state of an evaluator's loop at its head: z, the loop counter iter,
\* the iteration count so far, the recurrence steps done, whether the escape
\* test has fired, and whether the loop is still running.
LoopStart ==
    [z |-> <<Num(0), Num(0)>>, iter |-> 0, iterCount |-> 0, steps |-> 0,
     escaped |-> FALSE, running |-> TRUE]

\* One pass of the loop of the renderer's shader, from its head
shaderStep(c, maxIter, s) ==
    IF s.iter >= LoopLimit \/ s.iter >= maxIter
    THEN [s EXCEPT !.running = FALSE]
    ELSE LET z1 == zSquaredPlusC(s.z, c)
         IN  IF Gt(dot(z1), EscapeThreshold)
             THEN [s EXCEPT !.z = z1, !.iterCount = s.iter, !.steps = @ + 1,
                            !.escaped = TRUE, !.running = FALSE]
             ELSE [s EXCEPT !.z = z1, !.iterCount = s.iter, !.steps = @ + 1,
                            !.iter = @ + 1]

\* n passes of the loop of the renderer's shader, or as many as it runs
RECURSIVE shaderLoop(_, _, _, _)
shaderLoop(c, maxIter, s, n) ==
    IF n = 0 \/ ~s.running THEN s
    ELSE IF n = 1 THEN shaderStep(c, maxIter, s)
    ELSE shaderLoop(c, maxIter, shaderLoop(c, maxIter, s, n \div 2), n - n \div 2)

\* One pass of the loop of fragment.glsl: the iteration count is the loop
\* counter itself.
glslStep(c, maxIter, s) ==
    IF s.iter >= maxIter
    THEN [s EXCEPT !.running = FALSE]
    ELSE LET z1 == zSquaredPlusC(s.z, c)
         IN  IF Gt(dot(z1), EscapeThreshold)
             THEN [s EXCEPT !.z = z1, !.steps = @ + 1, !.escaped = TRUE,
                            !.running = FALSE]
             ELSE [s EXCEPT !.z = z1, !.steps = @ + 1, !.iter = @ + 1,
                            !.iterCount = @ + 1]

RECURSIVE glslLoop(_, _, _, _)
glslLoop(c, maxIter, s, n) ==
    IF n = 0 \/ ~s.running THEN s
    ELSE IF n = 1 THEN glslStep(c, maxIter, s)
    ELSE glslLoop(c, maxIter, glslLoop(c, maxIter, s, n \div 2), n - n \div 2)

\* The number of passes that exhausts a loop bounded by limit
Passes(limit) == IF limit > 0 THEN limit + 1 ELSE 1

\* log2(log2(t)) rounded down, for t = 2^(2^j) the largest such power <= d
RECURSIVE towerFloor(_, _, _)
towerFloor(d, j, t) ==
    IF t < 65536 /\ Le(Num(t * t), d) THEN towerFloor(d, j + 1, t * t) ELSE <<j, t>>

\* smoothingTerm = log(log(dot(z, z)) / 2.0 / log(2.0)) / log(2.0), that is
\* log2(log2(d)) - 1.  GLSL leaves log(x) undefined for x <= 0, which is
\* the case of the inner logarithm for d = 0 and of the outer one for
\* 0 < d <= 1: then the term is undef, whatever the device produces.
smoothingTerm(d, undef) ==
    IF ~Gt(d, Num(1)) THEN undef
    ELSE IF Lt(d, Num(2)) THEN Within(<<-1, 0>>, Num(-1))
    ELSE LET jt == towerFloor(d, 0, 2)
         IN  IF d = Num(jt[2])
             THEN Exact(Num(jt[1] - 1))
             ELSE Within(Num(jt[1] - 1), Num(jt[1]))

\* Step 3 of main with the smoothing branch taken at the cap as well
smooth_AtCap(loop, maxIter, undef) ==
    IF loop.iterCount <= maxIter
    THEN [loop EXCEPT !.smoothed = TRUE,
                      !.value = RealSub(Num(loop.iterCount + 1),
                                        smoothingTerm(dot(loop.z), undef))]
    ELSE loop

\* Step 3 of main with the smoothing counted from the cap
smooth_FromCap(loop, maxIter, undef) ==
    IF loop.iterCount < maxIter
    THEN [loop EXCEPT !.smoothed = TRUE,
                      !.value = RealSub(Num(maxIter + 1),
                                        smoothingTerm(dot(loop.z), undef))]
    ELSE loop

\* Step 3 of main: the smoothing branch and the value handed to getColor
smooth(loop, maxIter, undef) ==
    IF loop.iterCount < maxIter
    THEN [loop EXCEPT !.smoothed = TRUE,
                      !.value = RealSub(Num(loop.iterCount + 1),
                                        smoothingTerm(dot(loop.z), undef))]
    ELSE loop

Unsmoothed(loop) ==
    [z |-> loop.z, iterCount |-> loop.iterCount, steps |-> loop.steps,
     escaped |-> loop.escaped, smoothed |-> FALSE,
     value |-> Exact(Num(loop.iterCount))]

\* main of the renderer's shader, from the complex number c on
shaderMain(c, maxIter, undef) ==
    smooth(Unsmoothed(shaderLoop(c, maxIter, LoopStart, Passes(LoopLimit))), maxIter, undef)

\* main of fragment.glsl, from c on
glslMain(c, maxIter, undef) ==
    smooth(Unsmoothed(glslLoop(c, maxIter, LoopStart, Passes(maxIter))), maxIter, undef)

\* One test of the while condition of calculateMandelbrot, and the body
calculateMandelbrotStep(c, maxIter, s) ==
    IF Le(dot(s.z), EscapeThreshold) /\ s.iter < maxIter
    THEN [s EXCEPT !.z = zSquaredPlusC(s.z, c), !.iter = @ + 1,
                   !.iterCount = @ + 1, !.steps = @ + 1]
    ELSE [s EXCEPT !.escaped = ~Le(dot(s.z), EscapeThreshold), !.running = FALSE]

RECURSIVE calculateMandelbrotLoop(_, _, _, _)
calculateMandelbrotLoop(c, maxIter, s, n) ==
    IF n = 0 \/ ~s.running THEN s
    ELSE IF n = 1 THEN calculateMandelbrotStep(c, maxIter, s)
    ELSE calculateMandelbrotLoop(c, maxIter,
                                 calculateMandelbrotLoop(c, maxIter, s, n \div 2),
                                 n - n \div 2)

\* calculateMandelbrot of the canvas-2d renderer
calculateMandelbrot(c, maxIter) ==
    Unsmoothed(calculateMandelbrotLoop(c, maxIter, LoopStart, Passes(maxIter)))

\* The evaluator of a variant
Evaluate(variant, c, maxIter, undef) ==
    CASE variant = "shader" -> shaderMain(c, maxIter, undef)
      [] variant = "glsl" -> glslMain(c, maxIter, undef)
      [] OTHER -> calculateMandelbrot(c, maxIter)

\* abs and mod of GLSL
abs(a) == <<AbsInt(a[1]), a[2]>>
mod(x, y) == IF IsFinite(x) THEN Sub(x, Mul(y, Num(MathFloor(Div(x, y))))) ELSE NaN

hsl2rgb(h, s, l) ==
    LET c == Mul(Sub(Num(1), abs(Sub(Mul(Num(2), l), Num(1)))), s)
        x == Mul(c, Sub(Num(1), abs(Sub(mod(Div(h, Num(60)), Num(2)), Num(1)))))
        m == Sub(l, Div(c, Num(2)))
        rgb == IF Lt(h, Num(60)) THEN <<c, x, Num(0)>>
               ELSE IF Lt(h, Num(120)) THEN <<x, c, Num(0)>>
               ELSE IF Lt(h, Num(180)) THEN <<Num(0), c, x>>
               ELSE IF Lt(h, Num(240)) THEN <<Num(0), x, c>>
               ELSE IF Lt(h, Num(300)) THEN <<x, Num(0), c>>
               ELSE <<c, Num(0), x>>
    IN  <<Add(rgb[1], m), Add(rgb[2], m), Add(rgb[3], m)>>

\* getColor of both shaders.  branch names the return statement taken and
\* t is normalized; the channels are written out when t is rational.
getColor(iteration, maxIterations, u_color_scheme) ==
    IF RealGe(iteration, Num(maxIterations))
    THEN [branch |-> "black", t |-> <<>>, color |-> <<Num(0), Num(0), Num(0), Num(1)>>]
    ELSE LET normalized == RealDiv(iteration, Num(maxIterations))
             n == normalized.lo
         IN  IF u_color_scheme = 1
             THEN [branch |-> "grayscale", t |-> normalized,
                   color |-> IF IsExact(normalized) THEN <<n, n, n, Num(1)>> ELSE <<>>]
             ELSE IF u_color_scheme = 2
             THEN [branch |-> "fire", t |-> normalized,
                   color |-> IF IsExact(normalized)
                             THEN <<MathMin(Num(1), Mul(n, Num(2))),
                                    MathMin(Num(1), Mul(n, Frac(6, 10))),
                                    Mul(n, Frac(15, 100)), Num(1)>>
                             ELSE <<>>]
             ELSE [branch |-> "rainbow", t |-> normalized,
                   color |-> IF IsExact(normalized)
                             THEN LET rgb == hsl2rgb(Mul(Num(360), n), Num(1), Frac(1, 2))
                                  IN  <<rgb[1], rgb[2], rgb[3], Num(1)>>
                             ELSE <<>>]

\* The canvas-2d getColor without the caps of the fire scheme's channels
cpuGetColor_Uncapped(iteration, config) ==
    IF iteration = config.maxIterations
    THEN [branch |-> "black", t |-> <<>>, color |-> <<"#000000">>]
    ELSE LET normalized == Frac(iteration, config.maxIterations)
             value == MathFloor(Mul(normalized, Num(255)))
         IN  IF config.colorScheme = "grayscale"
             THEN [branch |-> "grayscale", t |-> Exact(normalized),
                   color |-> <<"rgb", value, value, value>>]
             ELSE IF config.colorScheme = "fire"
             THEN [branch |-> "fire", t |-> Exact(normalized),
                   color |-> <<"rgb", MathFloor(Mul(normalized, Num(510))),
                               MathFloor(Mul(normalized, Num(140))),
                               MathFloor(Mul(normalized, Num(40)))>>]
             ELSE [branch |-> "rainbow", t |-> Exact(normalized),
                   color |-> <<"hsl", Mul(Num(360), normalized), 100, 50>>]

\* getColor of the canvas-2d renderer: the colour is the string it returns,
\* kept as its parts.
cpuGetColor(iteration, config) ==
    IF iteration = config.maxIterations
    THEN [branch |-> "black", t |-> <<>>, color |-> <<"#000000">>]
    ELSE LET normalized == Frac(iteration, config.maxIterations)
         IN  IF config.colorScheme = "grayscale"
             THEN LET value == MathFloor(Mul(normalized, Num(255)))
                  IN  [branch |-> "grayscale", t |-> Exact(normalized),
                       color |-> <<"rgb", value, value, value>>]
             ELSE IF config.colorScheme = "fire"
             THEN LET red == MathMin(Num(255), Num(MathFloor(Mul(normalized, Num(510)))))
                      green == MathMin(Num(255), Num(MathFloor(Mul(normalized, Num(140)))))
                      blue == MathFloor(Mul(normalized, Num(40)))
                  IN  [branch |-> "fire", t |-> Exact(normalized),
                       color |-> <<"rgb", red[1], green[1], blue>>]
             ELSE LET hue == Mul(Num(360), normalized)
                  IN  [branch |-> "rainbow", t |-> Exact(normalized),
                       color |-> <<"hsl", hue, 100, 50>>]

MathRound(a) == MathFloor(Add(a, Frac(1, 2)))

\* hueToRgb of the canvas-2d render()
hueToRgb(p, q, t0) ==
    LET t1 == IF Lt(t0, Num(0)) THEN Add(t0, Num(1)) ELSE t0
        t == IF Gt(t1, Num(1)) THEN Sub(t1, Num(1)) ELSE t1
    IN  IF Lt(t, Frac(1, 6)) THEN Add(p, Mul(Mul(Sub(q, p), Num(6)), t))
        ELSE IF Lt(t, Frac(1, 2)) THEN q
        ELSE IF Lt(t, Frac(2, 3)) THEN Add(p, Mul(Mul(Sub(q, p), Sub(Frac(2, 3), t)), Num(6)))
        ELSE p

\* A number of the colour string is matched by (\d+) followed by the next
\* literal of the pattern: its text is a run of decimal digits.
IsDigits(n) == n \in Nat

\* The bytes render() of the canvas-2d renderer writes for the colour string:
\* the rgb(...) pattern, else the hsl(...) pattern, else r = g = b = 0.
pixelData(colorStr) ==
    IF colorStr[1] = "rgb" /\ IsDigits(colorStr[2]) /\ IsDigits(colorStr[3])
                           /\ IsDigits(colorStr[4])
    THEN <<colorStr[2], colorStr[3], colorStr[4], 255>>
    ELSE IF colorStr[1] = "hsl" /\ IsFinite(colorStr[2]) /\ colorStr[2][2] = 1
                                /\ IsDigits(colorStr[2][1])
    THEN LET h == Div(Num(colorStr[2][1]), Num(360))
             sat == Div(Num(colorStr[3]), Num(100))
             l == Div(Num(colorStr[4]), Num(100))
             q == IF Lt(l, Frac(1, 2)) THEN Mul(l, Add(Num(1), sat))
                  ELSE Sub(Add(l, sat), Mul(l, sat))
             p == Sub(Mul(Num(2), l), q)
         IN  <<MathRound(Mul(hueToRgb(p, q, Add(h, Frac(1, 3))), Num(255))),
               MathRound(Mul(hueToRgb(p, q, h), Num(255))),
               MathRound(Mul(hueToRgb(p, q, Sub(h, Frac(1, 3))), Num(255))), 255>>
    ELSE <<0, 0, 0, 255>>

\* ------------------------------------------------------------------------
\* MandelbrotSet, the viewport controller  (src/src/index.ts)
\* ------------------------------------------------------------------------
\* enum InteractionMode
Pan == "pan"
Select == "select"

\* null for selectionStart and for selectionRect
null == <<>>

\* Selections smaller than this many pixels are ignored on mouseup.
DeadZone == 10

\* The view as one record; the handlers below are functions on it.
View ==
    [renderer |-> renderer, frames |-> frames, isDragging |-> isDragging,
     lastX |-> lastX, lastY |-> lastY, interactionMode |-> interactionMode,
     selectionStart |-> selectionStart, selectionRect |-> selectionRect,
     tooltip |-> tooltip]

\* A call of a renderer mutator: the renderer changes and the frame that the
\* mutator's render() draws is appended to the frames of the running handler.
Call(s, r) == [s EXCEPT !.renderer = r, !.frames = Append(@, Uniforms(r))]

getColorSchemeEnum(schemeName) ==
    CASE schemeName = "grayscale" -> Grayscale
      [] schemeName = "fire" -> Fire
      [] OTHER -> Rainbow

removeSelectionRectangle(s) == [s EXCEPT !.selectionRect = null]

updateSelectionRectangle(s, startX, startY, endX, endY) ==
    LET left == IF startX < endX THEN startX ELSE endX
        top == IF startY < endY THEN startY ELSE endY
        width == AbsInt(endX - startX)
        height == AbsInt(endY - startY)
    IN  [s EXCEPT !.selectionRect = <<left, top, width, height>>]

\* The zoom factor of a selection (zoomToSelection, second half)
selectionZoomFactor_Max(r, startX, startY, endX, endY) ==
    LET selectionWidth == Num(AbsInt(endX - startX))
        selectionHeight == Num(AbsInt(endY - startY))
        zoomFactorX == Div(Num(r.canvasWidth), selectionWidth)
        zoomFactorY == Div(Num(r.canvasHeight), selectionHeight)
    IN  IF Lt(zoomFactorX, zoomFactorY) THEN zoomFactorY ELSE zoomFactorX

selectionZoomFactor(r, startX, startY, endX, endY) ==
    LET selectionWidth == Num(AbsInt(endX - startX))
        selectionHeight == Num(AbsInt(endY - startY))
        zoomFactorX == Div(Num(r.canvasWidth), selectionWidth)
        zoomFactorY == Div(Num(r.canvasHeight), selectionHeight)
    IN  MathMin(zoomFactorX, zoomFactorY)

zoomToSelection(s, startX, startY, endX, endY) ==
    LET r == s.renderer
        centerX == Frac(startX + endX, 2)
        centerY == Frac(startY + endY, 2)
        currentViewport == getViewport(r)
        aspectRatio == Div(Num(r.canvasWidth), Num(r.canvasHeight))
        rangeY == Div(Num(2), currentViewport.zoom)
        rangeX == Mul(rangeY, aspectRatio)
        minX == Sub(currentViewport.x, Div(rangeX, Num(2)))
        minY == Sub(currentViewport.y, Div(rangeY, Num(2)))
        stepX == Div(rangeX, Num(r.canvasWidth))
        stepY == Div(rangeY, Num(r.canvasHeight))
        fractalCenterX == Add(minX, Mul(centerX, stepX))
        fractalCenterY == Add(minY, Mul(centerY, stepY))
        zoomFactor == selectionZoomFactor(r, startX, startY, endX, endY)
        s1 == Call(s, updateViewport(r, fractalCenterX, fractalCenterY))
    IN  Call(s1, updateZoom(s1.renderer, Mul(currentViewport.zoom, zoomFactor)))

\* The step of the WebGL set-up that fails on this device, if any
Failures ==
    {"none", "getContext", "createShader", "compileShader", "createProgram",
     "linkProgram", "createBuffer"}

Throw(message) == [threw |-> TRUE, error |-> message]
Returned == [threw |-> FALSE, error |-> ""]

createShader(gl) ==
    IF gl = "createShader" THEN Throw("Could not create shader")
    ELSE IF gl = "compileShader" THEN Throw("Could not compile shader")
    ELSE Returned

createShaderProgram(gl) ==
    LET shaders == createShader(gl)
    IN  IF shaders.threw THEN shaders
        ELSE IF gl = "createProgram" THEN Throw("Could not create program")
        ELSE IF gl = "linkProgram" THEN Throw("Could not link program")
        ELSE Returned

createRectangleBuffer(gl) ==
    IF gl = "createBuffer" THEN Throw("Could not create buffer") ELSE Returned

\* new WebGLMandelbrotRenderer(canvas, config) on a canvas of cw x ch
WebGLMandelbrotRenderer(gl, config, cw, ch) ==
    IF gl = "getContext" THEN Throw("WebGL not supported")
    ELSE LET program == createShaderProgram(gl)
             buffer == createRectangleBuffer(gl)
         IN  IF program.threw THEN program
             ELSE IF buffer.threw THEN buffer
             ELSE [threw |-> FALSE, error |-> "", renderer |-> NewRenderer(config, cw, ch)]

\* new MandelbrotSet(canvasId, config) with setupEventListeners ahead of the
\* creation of the renderer
MandelbrotSet_ListenersFirst(gl, config, display) ==
    LET made == WebGLMandelbrotRenderer(gl,
                    [maxIterations |-> config.maxIterations,
                     colorScheme |-> getColorSchemeEnum(config.colorScheme)],
                    display[1], display[2])
    IN  IF made.threw
        THEN [threw |-> TRUE, error |-> made.error, listeners |-> TRUE,
              renderer |-> null, frames |-> <<>>]
        ELSE [threw |-> FALSE, error |-> "", listeners |-> TRUE,
              renderer |-> render(made.renderer),
              frames |-> <<Uniforms(render(made.renderer))>>]

\* new MandelbrotSet(canvasId, config): what the constructor leaves behind
MandelbrotSet(gl, config, display) ==
    LET made == WebGLMandelbrotRenderer(gl,
                    [maxIterations |-> config.maxIterations,
                     colorScheme |-> getColorSchemeEnum(config.colorScheme)],
                    display[1], display[2])
    IN  IF made.threw
        THEN [threw |-> TRUE, error |-> made.error, listeners |-> FALSE,
              renderer |-> null, frames |-> <<>>]
        ELSE [threw |-> FALSE, error |-> "", listeners |-> TRUE,
              renderer |-> render(made.renderer),
              frames |-> <<Uniforms(render(made.renderer))>>]

\* A mode change that leaves the selection rectangle in the page
onModeChange_KeepRectangle(s, mode) ==
    [s EXCEPT !.interactionMode = mode]

\* 'change' on the mode-pan / mode-select radio button
onModeChange(s, mode) ==
    removeSelectionRectangle([s EXCEPT !.interactionMode = mode])

onMouseDown(s, x, y) ==
    LET s1 == [s EXCEPT !.isDragging = TRUE, !.lastX = x, !.lastY = y]
    IN  IF s1.interactionMode = Select
        THEN updateSelectionRectangle([s1 EXCEPT !.selectionStart = <<x, y>>], x, y, x, y)
        ELSE s1

\* 'mousemove' listener that does not record the pointer's position
onMouseMove_StaleLast(s, x, y) ==
    IF s.isDragging /\ s.interactionMode = Pan
    THEN Call(s, pan(s.renderer, x - s.lastX, y - s.lastY))
    ELSE s

\* 'mousemove' listener that pans whether or not a drag is in progress
onMouseMove_Ungated(s, x, y) ==
    IF s.interactionMode = Pan
    THEN [Call(s, pan(s.renderer, x - s.lastX, y - s.lastY)) EXCEPT !.lastX = x, !.lastY = y]
    ELSE s

onMouseMove(s, x, y) ==
    IF s.isDragging
    THEN IF s.interactionMode = Pan
         THEN LET deltaX == x - s.lastX
                  deltaY == y - s.lastY
              IN  [Call(s, pan(s.renderer, deltaX, deltaY)) EXCEPT !.lastX = x, !.lastY = y]
         ELSE IF s.interactionMode = Select /\ s.selectionStart # null
              THEN updateSelectionRectangle(s, s.selectionStart[1], s.selectionStart[2], x, y)
              ELSE s
    ELSE s

\* The coordinate tooltip of the page of part_004: screen position to complex
\* coordinate.  x, y are the pointer's offsets in CSS pixels.
screenToComplex(r, x, y) ==
    LET canvasWidth == Num(r.canvasWidth)
        canvasHeight == Num(r.canvasHeight)
        viewport == getViewport(r)
        aspectRatio == Div(canvasWidth, canvasHeight)
        rangeY == Div(Num(2), viewport.zoom)
        rangeX == Mul(rangeY, aspectRatio)
        minReal == Sub(viewport.x, Div(rangeX, Num(2)))
        maxReal == Add(viewport.x, Div(rangeX, Num(2)))
        minImag == Sub(viewport.y, Div(rangeY, Num(2)))
        maxImag == Add(viewport.y, Div(rangeY, Num(2)))
        normalizedX == Div(Num(x), canvasWidth)
        normalizedY == Div(Num(y), canvasHeight)
    IN  [real |-> Add(minReal, Mul(normalizedX, Sub(maxReal, minReal))),
         imag |-> Add(minImag, Mul(normalizedY, Sub(maxImag, minImag)))]

\* The tooltip's 'mousemove' listener, registered on the canvas after those
\* of MandelbrotSet and only by the page that has the tooltip.  The tooltip
\* shows the decimal text of these coordinates; its digits are not modelled.
onTooltipMouseMove(s, x, y) ==
    IF wheelForm = "relative"
    THEN [s EXCEPT !.tooltip = screenToComplex(s.renderer, x, y)]
    ELSE s

\* The size test of the 'mouseup' listener
selectionLargeEnough_Or(width, height) == width > DeadZone \/ height > DeadZone

selectionLargeEnough(width, height) == width > DeadZone /\ height > DeadZone

\* The canvas listener reached after the window listener has run
onCanvasMouseUp_AfterWindow(s, x, y) ==
    LET s1 == [s EXCEPT !.isDragging = FALSE]
    IN  IF s1.interactionMode = Select
        THEN removeSelectionRectangle([s1 EXCEPT !.selectionStart = null])
        ELSE s1

\* 'mouseup' listener of the canvas
onCanvasMouseUp(s, x, y) ==
    LET s1 == IF s.isDragging /\ s.interactionMode = Select /\ s.selectionStart # null
              THEN LET width == AbsInt(x - s.selectionStart[1])
                       height == AbsInt(y - s.selectionStart[2])
                       s2 == IF selectionLargeEnough(width, height)
                             THEN zoomToSelection(s, s.selectionStart[1], s.selectionStart[2], x, y)
                             ELSE s
                   IN  removeSelectionRectangle([s2 EXCEPT !.selectionStart = null])
              ELSE s
    IN  [s1 EXCEPT !.isDragging = FALSE]

\* 'mouseup' listener of the window
onWindowMouseUp(s) ==
    LET s1 == [s EXCEPT !.isDragging = FALSE]
    IN  IF s1.interactionMode = Select
        THEN removeSelectionRectangle([s1 EXCEPT !.selectionStart = null])
        ELSE s1

ZoomOut == Frac(8, 10)
ZoomIn == Frac(12, 10)

\* 'wheel' listener, form of src/src/index.ts (normalized device coordinates)
onWheelNdc(s, x, y, deltaY) ==
    LET r == s.renderer
        viewport == getViewport(r)
        ndcX == Sub(Mul(Div(Num(x), Num(r.canvasWidth)), Num(2)), Num(1))
        ndcY == Add(Mul(Div(Num(y), Num(r.canvasHeight)), Num(-2)), Num(1))
        fractalX == Add(viewport.x, Mul(ndcX, Div(Num(2), viewport.zoom)))
        fractalY == Add(viewport.y, Mul(ndcY, Div(Num(2), viewport.zoom)))
        zoomFactor == IF deltaY > 0 THEN ZoomOut ELSE ZoomIn
        newZoom == Mul(viewport.zoom, zoomFactor)
        newViewportX == Sub(fractalX, Mul(ndcX, Div(Num(2), newZoom)))
        newViewportY == Sub(fractalY, Mul(ndcY, Div(Num(2), newZoom)))
        s1 == Call(s, updateViewport(r, newViewportX, newViewportY))
    IN  Call(s1, updateZoom(s1.renderer, newZoom))

\* 'wheel' listener, form of src/unnamed/part_004 (relative position)
onWheelRelative(s, x, y, deltaY) ==
    LET r == s.renderer
        relativeX == Div(Num(x), Num(r.clientWidth))
        relativeY == Div(Num(y), Num(r.clientHeight))
        viewport == getViewport(r)
        aspectRatio == Div(Num(r.clientWidth), Num(r.clientHeight))
        rangeY == Div(Num(2), viewport.zoom)
        rangeX == Mul(rangeY, aspectRatio)
        fractalX == Add(viewport.x, Mul(Sub(relativeX, Frac(1, 2)), rangeX))
        fractalY == Add(viewport.y, Mul(Sub(Frac(1, 2), relativeY), rangeY))
        zoomFactor == IF deltaY > 0 THEN ZoomOut ELSE ZoomIn
        newZoom == Mul(viewport.zoom, zoomFactor)
        newRangeY == Div(Num(2), newZoom)
        newRangeX == Mul(newRangeY, aspectRatio)
        newViewportX == Sub(fractalX, Mul(Sub(relativeX, Frac(1, 2)), newRangeX))
        newViewportY == Sub(fractalY, Mul(Sub(Frac(1, 2), relativeY), newRangeY))
        s1 == Call(s, updateViewport(r, newViewportX, newViewportY))
    IN  Call(s1, updateZoom(s1.renderer, newZoom))

\* MandelbrotSet.updateConfig: config holds the fields the caller provided,
\* colorScheme as a string.
MandelbrotSet_updateConfig(s, config) ==
    LET updatedConfig ==
            [k \in DOMAIN config |->
                IF k = "colorScheme" THEN getColorSchemeEnum(config[k]) ELSE config[k]]
    IN  Call(s, updateConfig(s.renderer, updatedConfig))

\* MandelbrotSet.resetView
MandelbrotSet_resetView(s) ==
    LET s1 == removeSelectionRectangle(s)
    IN  Call(s1, resetView(s1.renderer))

\* ResizeObserver callback: the display size of the canvas has become w x h.
onResize(s, w, h) ==
    Call(s, render([s.renderer EXCEPT !.clientWidth = w, !.clientHeight = h]))

\* ------------------------------------------------------------------------
\* Inputs of the exploration
\* ------------------------------------------------------------------------
\* Display sizes of the canvas element, in CSS pixels
InitialDisplay == <<800, 600>>
DisplaySizes == {<<800, 600>>, <<600, 600>>, <<802, 602>>}

\* Pointer positions (offsetX, offsetY); all lie inside every display size
PointA == <<100, 100>>
PointB == <<105, 105>>
PointC == <<110, 400>>
PointD == <<300, 200>>
DownPoints == {PointA, <<400, 300>>}
MovePoints == {PointA, PointB, PointD}
UpPoints == {PointB, PointC, PointD}
CentrePoint(r) == <<r.clientWidth \div 2, r.clientHeight \div 2>>
WheelPoints(r) == {CentrePoint(r), PointA, PointD}
WheelDeltas == {-100, 100}

\* Arguments of the public operations
PanDeltas == {<<80, 0>>, <<0, 60>>, <<-40, 30>>}
ViewportArgs == {<<Num(0), Num(0)>>, <<Frac(-3, 4), Frac(1, 10)>>}
ZoomArgs == {Num(0), Num(-1), Num(2), Num(150)}
ConfigArgs ==
    { [maxIterations |-> 0], [maxIterations |-> -5], [maxIterations |-> 50],
      [colorScheme |-> "fire"], [colorScheme |-> "grayscale"],
      [maxIterations |-> 200, colorScheme |-> "rainbow"] }

\* ------------------------------------------------------------------------
\* State machine
\* ------------------------------------------------------------------------
\* Configuration read from the page: slider value 100, first option rainbow
InitialConfig == [maxIterations |-> 100, colorScheme |-> getColorSchemeEnum("rainbow")]

\* The last handler run and its arguments; switched records that the mode
\* has been changed since the last mousedown; drag is the pointer position
\* and the renderer at the last mousedown as long as only mousemove events
\* have followed it.
NoOp == [op |-> "init", x |-> 0, y |-> 0, d |-> 0, switched |-> FALSE, drag |-> null]

\* No pixel is followed.
NoPixel == [stage |-> "none"]

\* The page after its DOMContentLoaded handler has run without an exception
Running == [phase |-> "running", gl |-> "none", listeners |-> TRUE, error |-> ""]

\* The viewer after the construction of MandelbrotSet
Constructed ==
    /\ renderer = render(NewRenderer(InitialConfig, InitialDisplay[1], InitialDisplay[2]))
    /\ frames = <<Uniforms(renderer)>>
    /\ isDragging = FALSE
    /\ lastX = 0
    /\ lastY = 0
    /\ interactionMode = Pan
    /\ selectionStart = null
    /\ selectionRect = null
    /\ tooltip = null
    /\ wheelForm \in {"ndc", "relative"}
    /\ lastOp = NoOp
    /\ pre = View
    /\ steps = 0

Init ==
    /\ Constructed
    /\ pixel = NoPixel
    /\ app = Running

\* The state at the start of a handler: no frame drawn yet.
Begin == [View EXCEPT !.frames = <<>>]

\* One handler runs to completion and leaves the view s.
Handle(s, op, x, y, d) ==
    /\ steps' = steps + 1
    /\ renderer' = s.renderer
    /\ frames' = s.frames
    /\ isDragging' = s.isDragging
    /\ lastX' = s.lastX
    /\ lastY' = s.lastY
    /\ interactionMode' = s.interactionMode
    /\ selectionStart' = s.selectionStart
    /\ selectionRect' = s.selectionRect
    /\ tooltip' = s.tooltip
    /\ lastOp' = [op |-> op, x |-> x, y |-> y, d |-> d,
                  switched |-> IF op = "mode"
                               THEN lastOp.switched \/ s.interactionMode # interactionMode
                               ELSE IF op = "mousedown" THEN FALSE
                               ELSE lastOp.switched,
                  drag |-> IF op = "mousedown"
                           THEN [x |-> x, y |-> y, renderer |-> s.renderer]
                           ELSE IF op = "mousemove" THEN lastOp.drag
                           ELSE null]
    /\ pre' = View
    /\ UNCHANGED <<wheelForm, pixel, app>>

Step(s, op, x, y, d) ==
    /\ steps < MaxSteps
    /\ Handle(s, op, x, y, d)

ModeChange ==
    \E mode \in {Pan, Select} :
        Step(onModeChange(Begin, mode), "mode", 0, 0, 0)

MouseDown ==
    \E p \in DownPoints :
        Step(onMouseDown(Begin, p[1], p[2]), "mousedown", p[1], p[2], 0)

MouseMove ==
    \E p \in MovePoints :
        Step(onTooltipMouseMove(onMouseMove(Begin, p[1], p[2]), p[1], p[2]),
             "mousemove", p[1], p[2], 0)

\* The button is released over the canvas: the canvas listener runs, then
\* the event bubbles to the window listener.
MouseUpOnCanvas ==
    \E p \in UpPoints :
        Step(onWindowMouseUp(onCanvasMouseUp(Begin, p[1], p[2])), "mouseup", p[1], p[2], 0)

\* The button is released outside the canvas: only the window listener runs.
MouseUpOutside ==
    Step(onWindowMouseUp(Begin), "mouseupWindow", 0, 0, 0)

Wheel ==
    \E p \in WheelPoints(renderer), deltaY \in WheelDeltas :
        Step(IF wheelForm = "ndc"
             THEN onWheelNdc(Begin, p[1], p[2], deltaY)
             ELSE onWheelRelative(Begin, p[1], p[2], deltaY),
             "wheel", p[1], p[2], deltaY)

UpdateConfig ==
    \E config \in ConfigArgs :
        Step(MandelbrotSet_updateConfig(Begin, config), "updateConfig", 0, 0, config)

ResetView ==
    Step(MandelbrotSet_resetView(Begin), "resetView", 0, 0, 0)

UpdateViewport ==
    \E c \in ViewportArgs :
        Step(Call(Begin, updateViewport(renderer, c[1], c[2])), "updateViewport", 0, 0, c)

UpdateZoom ==
    \E z \in ZoomArgs :
        Step(Call(Begin, updateZoom(renderer, z)), "updateZoom", 0, 0, z)

PanBy ==
    \E d \in PanDeltas :
        Step(Call(Begin, pan(renderer, d[1], d[2])), "pan", d[1], d[2], 0)

Resize ==
    \E size \in DisplaySizes :
        Step(onResize(Begin, size[1], size[2]), "resize", size[1], size[2], 0)

Next ==
    \/ ModeChange
    \/ MouseDown
    \/ MouseMove
    \/ MouseUpOnCanvas
    \/ MouseUpOutside
    \/ Wheel
    \/ UpdateConfig
    \/ ResetView
    \/ UpdateViewport
    \/ UpdateZoom
    \/ PanBy
    \/ Resize

Spec == Init /\ [][Next]_vars

\* ------------------------------------------------------------------------
\* Pointer gestures: the mode radio buttons and the mouse listeners only,
\* followed over longer sequences of events.
\* ------------------------------------------------------------------------
MaxDragSteps == 5

DragModeChange ==
    /\ steps < MaxDragSteps
    /\ \E mode \in {Pan, Select} :
          Handle(onModeChange(Begin, mode), "mode", 0, 0, 0)

DragMouseDown ==
    /\ steps < MaxDragSteps
    /\ \E p \in DownPoints :
          Handle(onMouseDown(Begin, p[1], p[2]), "mousedown", p[1], p[2], 0)

DragMouseMove ==
    /\ steps < MaxDragSteps
    /\ \E p \in MovePoints :
          Handle(onTooltipMouseMove(onMouseMove(Begin, p[1], p[2]), p[1], p[2]),
                 "mousemove", p[1], p[2], 0)

DragMouseUpOnCanvas ==
    /\ steps < MaxDragSteps
    /\ \E p \in UpPoints :
          Handle(onWindowMouseUp(onCanvasMouseUp(Begin, p[1], p[2])), "mouseup", p[1], p[2], 0)

DragMouseUpOutside ==
    /\ steps < MaxDragSteps
    /\ Handle(onWindowMouseUp(Begin), "mouseupWindow", 0, 0, 0)

\* 'click' on the reset button while the pointer is elsewhere engaged
DragResetView ==
    /\ steps < MaxDragSteps
    /\ Handle(MandelbrotSet_resetView(Begin), "resetView", 0, 0, 0)

DragNext ==
    \/ DragModeChange
    \/ DragMouseDown
    \/ DragMouseMove
    \/ DragMouseUpOnCanvas
    \/ DragMouseUpOutside
    \/ DragResetView

DragSpec == Init /\ [][DragNext]_vars

\* ------------------------------------------------------------------------
\* The start-up of the page: the DOMContentLoaded handler constructs the
\* MandelbrotSet on a device whose WebGL set-up succeeds or fails at one of
\* its steps, and the viewer runs from there.
\* ------------------------------------------------------------------------
\* Configuration as the page holds it: the scheme by name
PageConfig == [maxIterations |-> 100, colorScheme |-> "rainbow"]

BootInit ==
    /\ renderer = null
    /\ frames = <<>>
    /\ isDragging = FALSE
    /\ lastX = 0
    /\ lastY = 0
    /\ interactionMode = Pan
    /\ selectionStart = null
    /\ selectionRect = null
    /\ tooltip = null
    /\ wheelForm \in {"ndc", "relative"}
    /\ lastOp = NoOp
    /\ pre = View
    /\ steps = 0
    /\ pixel = NoPixel
    /\ app \in [phase : {"loading"}, gl : Failures, listeners : {FALSE}, error : {""}]

\* The DOMContentLoaded handler
Load ==
    /\ app.phase = "loading"
    /\ LET made == MandelbrotSet(app.gl, PageConfig, InitialDisplay)
       IN  /\ app' = [app EXCEPT !.phase = IF made.threw THEN "failed" ELSE "running",
                                 !.listeners = made.listeners,
                                 !.error = made.error]
           /\ renderer' = made.renderer
           /\ frames' = made.frames
           /\ pre' = [View EXCEPT !.renderer = made.renderer, !.frames = made.frames]
    /\ UNCHANGED <<isDragging, lastX, lastY, interactionMode, selectionStart,
                   selectionRect, tooltip, wheelForm, lastOp, steps, pixel>>

\* The listeners and the methods of the viewer exist once it runs.
BootNext ==
    \/ Load
    \/ app.phase = "running" /\ Next

BootSpec == BootInit /\ [][BootNext]_vars

\* ------------------------------------------------------------------------
\* The evaluation of one pixel: the complex number c of the pixel and the
\* configuration of the frame are the inputs; one action is main() of a
\* shader, or the body of the pixel loop of the canvas-2d render().
\* ------------------------------------------------------------------------
\* Caps of the frame: the out-of-range -1 and 0 that updateConfig accepts,
\* and the small valid ones
MaxCap == 6
\* The caps of the exploration: the small ones and one above the loop limit
\* of the shader
Caps == ((-1)..MaxCap) \cup {LoopLimit + 1}
Points ==
    {<<Num(0), Num(0)>>, <<Num(-1), Num(0)>>, <<Num(-2), Num(0)>>,
     <<Num(0), Num(1)>>, <<Num(1), Num(0)>>, <<Num(2), Num(0)>>,
     <<Num(3), Num(0)>>, <<Num(4), Num(0)>>, <<Num(-1), Num(1)>>,
     <<Num(16), Num(0)>>}
SchemeNames == {"rainbow", "grayscale", "fire"}
Variants == {"shader", "glsl", "cpu"}

\* What a device may produce for a logarithm outside its domain
UndefinedFloats == {Exact(NaN), Exact(<<1, 0>>), Exact(<<-1, 0>>), Exact(Num(0))}

PixelInputs ==
    [stage : {"input"}, variant : Variants, c : Points,
     maxIterations : Caps, colorScheme : SchemeNames]

EvalInit ==
    /\ Constructed
    /\ pixel \in PixelInputs
    /\ app = Running

\* The pixel once drawn: data is gl_FragColor, or the four bytes written to
\* the image data.
Drawn(p, result, colour, data) ==
    [stage |-> "drawn", variant |-> p.variant, c |-> p.c,
     maxIterations |-> p.maxIterations, colorScheme |-> p.colorScheme,
     result |-> result, colour |-> colour, data |-> data]

\* main() of the renderer's fragment shader for the pixel
ShaderFragment ==
    /\ pixel.stage = "input" /\ pixel.variant = "shader"
    /\ \E undef \in UndefinedFloats :
          LET result == shaderMain(pixel.c, pixel.maxIterations, undef)
              colour == getColor(result.value, pixel.maxIterations,
                                 getColorSchemeEnum(pixel.colorScheme))
          IN  pixel' = Drawn(pixel, result, colour, colour.color)
    /\ UNCHANGED viewerVars

\* main() of fragment.glsl for the pixel
GlslFragment ==
    /\ pixel.stage = "input" /\ pixel.variant = "glsl"
    /\ \E undef \in UndefinedFloats :
          LET result == glslMain(pixel.c, pixel.maxIterations, undef)
              colour == getColor(result.value, pixel.maxIterations,
                                 getColorSchemeEnum(pixel.colorScheme))
          IN  pixel' = Drawn(pixel, result, colour, colour.color)
    /\ UNCHANGED viewerVars

\* The body of the pixel loop of the canvas-2d render() for the pixel
CpuPixel ==
    /\ pixel.stage = "input" /\ pixel.variant = "cpu"
    /\ LET result == calculateMandelbrot(pixel.c, pixel.maxIterations)
           colorStr == cpuGetColor(result.iterCount,
                                   [maxIterations |-> pixel.maxIterations,
                                    colorScheme |-> pixel.colorScheme])
       IN  pixel' = Drawn(pixel, result, colorStr, pixelData(colorStr.color))
    /\ UNCHANGED viewerVars

EvalNext ==
    \/ ShaderFragment
    \/ GlslFragment
    \/ CpuPixel

EvalSpec == EvalInit /\ [][EvalNext]_vars

\* ------------------------------------------------------------------------
\* Well-formedness of the model
\* ------------------------------------------------------------------------
TypeOK ==
    /\ app.phase \in {"loading", "running", "failed"}
    /\ app.phase = "running" => IsFinite(renderer.zoom)
    /\ app.phase = "running" => renderer.canvasWidth > 0 /\ renderer.canvasHeight > 0
    /\ isDragging \in BOOLEAN
    /\ interactionMode \in {Pan, Select}
    /\ Len(frames) <= 2

\* ------------------------------------------------------------------------
\* Vocabulary of the properties
\* ------------------------------------------------------------------------
\* A viewport of the data model: finite centre, finite zoom > 0.
ValidViewport(r) ==
    /\ IsFinite(r.viewportX) /\ IsFinite(r.viewportY)
    /\ IsFinite(r.zoom) /\ Gt(r.zoom, Num(0))

Centre(r) == <<r.viewportX, r.viewportY>>

\* The last event was a release over the canvas that ended a selection drag
\* in Select mode; SelectionWidth x SelectionHeight is the final rectangle.
SelectionReleased ==
    /\ lastOp.op = "mouseup"
    /\ pre.isDragging /\ pre.interactionMode = Select /\ pre.selectionStart # null

SelectionWidth == AbsInt(lastOp.x - pre.selectionStart[1])
SelectionHeight == AbsInt(lastOp.y - pre.selectionStart[2])

\* The last event panned the view: a call of pan, or a pointer-move of a
\* Pan-mode drag.  PanDX, PanDY is the pixel delta handed to pan.
Panned ==
    \/ lastOp.op = "pan"
    \/ lastOp.op = "mousemove" /\ pre.isDragging /\ pre.interactionMode = Pan

PanDX == IF lastOp.op = "pan" THEN lastOp.x ELSE lastOp.x - pre.lastX
PanDY == IF lastOp.op = "pan" THEN lastOp.y ELSE lastOp.y - pre.lastY

\* ------------------------------------------------------------------------
\* C1  Zoom-to-cursor: after a wheel event on a valid viewport, the complex
\* coordinate drawn at the pointer pixel is the one drawn there before.
\* ------------------------------------------------------------------------
C1_ZoomToCursor ==
    (lastOp.op = "wheel" /\ ValidViewport(pre.renderer))
        => ShaderCoordinate(renderer, Num(lastOp.x), Num(lastOp.y))
             = ShaderCoordinate(pre.renderer, Num(lastOp.x), Num(lastOp.y))

\* ------------------------------------------------------------------------
\* C2  Zoom-to-cursor at the midpoint: a wheel event with the pointer at the
\* exact centre of the canvas leaves the viewport centre unchanged.
\* ------------------------------------------------------------------------
C2_WheelAtMidpoint ==
    (/\ lastOp.op = "wheel"
     /\ <<lastOp.x, lastOp.y>> = CentrePoint(pre.renderer)
     /\ ValidViewport(pre.renderer))
        => Centre(renderer) = Centre(pre.renderer)

\* ------------------------------------------------------------------------
\* C3  Zoom-to-selection centre: when a selection larger than the dead-zone
\* is released, the new centre is the complex coordinate that was drawn at
\* the centre pixel of the selection rectangle.
\* ------------------------------------------------------------------------
C3_SelectionCentre ==
    (/\ SelectionReleased
     /\ SelectionWidth > DeadZone /\ SelectionHeight > DeadZone
     /\ ValidViewport(pre.renderer))
        => Centre(renderer)
             = ShaderCoordinate(pre.renderer,
                                Frac(pre.selectionStart[1] + lastOp.x, 2),
                                Frac(pre.selectionStart[2] + lastOp.y, 2))

C5_DeadZone ==
    (SelectionReleased /\ (SelectionWidth <= 10 \/ SelectionHeight <= 10))
        => /\ renderer = pre.renderer
           /\ frames = <<>>
           /\ selectionStart = null /\ selectionRect = null /\ ~isDragging

C5_Witness ==
    /\ SelectionReleased
    /\ SelectionWidth = 10 /\ SelectionHeight > 10
    /\ pre.selectionRect # null
    /\ frames = <<>>

\* ------------------------------------------------------------------------
\* C6  Reset: resetView leaves the viewport exactly {-0.5, 0, 1} whatever
\* the state before, does not change the configuration, and a second
\* resetView changes nothing.
\* ------------------------------------------------------------------------
C6_Reset ==
    lastOp.op = "resetView"
        => /\ renderer.viewportX = Frac(-1, 2)
           /\ renderer.viewportY = Num(0)
           /\ renderer.zoom = Num(1)
           /\ renderer.config = pre.renderer.config
           /\ MandelbrotSet_resetView(View).renderer = renderer

C6_Witness ==
    /\ lastOp.op = "resetView"
    /\ pre.renderer.viewportX # Frac(-1, 2)
    /\ pre.renderer.viewportY # Num(0)
    /\ pre.renderer.zoom # Num(1)
    /\ pre.renderer.config # InitialConfig

\* ------------------------------------------------------------------------
\* C7  Pan magnitude: pan(dx, dy) moves the centre by the extent of dx by dy
\* pixels of the visible rectangle, whose height 2/zoom is spread over
\* canvas.height pixels and whose width over canvas.width pixels.
\* ------------------------------------------------------------------------
C7_PanMagnitude ==
    (Panned /\ ValidViewport(pre.renderer))
        => LET r == pre.renderer
               rangeY == Div(Num(2), r.zoom)
               rangeX == Mul(rangeY, Frac(r.canvasWidth, r.canvasHeight))
           IN  /\ renderer.viewportX
                    = Sub(r.viewportX, Mul(Num(PanDX), Div(rangeX, Num(r.canvasWidth))))
               /\ renderer.viewportY
                    = Add(r.viewportY, Mul(Num(PanDY), Div(rangeY, Num(r.canvasHeight))))

\* ------------------------------------------------------------------------
\* C8  Pan direction and frame: on a valid viewport, pan(dx, dy) with dx > 0
\* strictly decreases centerX, with dy > 0 strictly increases centerY, with
\* dx = 0 (dy = 0) leaves centerX (centerY) unchanged, and never changes the
\* zoom or the configuration.
\* ------------------------------------------------------------------------
C8_PanDirection ==
    (Panned /\ ValidViewport(pre.renderer))
        => /\ PanDX > 0 => Lt(renderer.viewportX, pre.renderer.viewportX)
           /\ PanDX = 0 => renderer.viewportX = pre.renderer.viewportX
           /\ PanDY > 0 => Gt(renderer.viewportY, pre.renderer.viewportY)
           /\ PanDY = 0 => renderer.viewportY = pre.renderer.viewportY
           /\ renderer.zoom = pre.renderer.zoom
           /\ renderer.config = pre.renderer.config

C8_Witness ==
    /\ Panned /\ ValidViewport(pre.renderer)
    /\ PanDX > 0 /\ PanDY > 0
    /\ pre.renderer.zoom # Num(1)
    /\ Lt(renderer.viewportX, pre.renderer.viewportX)

\* ------------------------------------------------------------------------
\* C9  Viewport invariant: zoom > 0 in every reachable state.
\* ------------------------------------------------------------------------
C9_ZoomPositive == Gt(renderer.zoom, Num(0))

\* ------------------------------------------------------------------------
\* C10  RenderConfig invariant: the stored maxIterations is at least 1 in
\* every reachable state (a non-positive argument is clamped, not stored).
\* ------------------------------------------------------------------------
C10_MaxIterationsAtLeastOne == renderer.config.maxIterations >= 1

\* ------------------------------------------------------------------------
\* Vocabulary of the pixel properties
\* ------------------------------------------------------------------------
Origin == <<Num(0), Num(0)>>
DrawnBy(variants) == pixel.stage = "drawn" /\ pixel.variant \in variants

\* ------------------------------------------------------------------------
\* C11  Set membership: with maxIterations >= 1, the shader never detects an
\* escape for c = 0, and a pixel that reaches the cap without an escape is
\* handed to getColor as exactly maxIterations, no smoothing applied.
\* ------------------------------------------------------------------------
C11_SetMembership ==
    (DrawnBy({"shader", "glsl"}) /\ pixel.maxIterations >= 1)
        => /\ (pixel.c = Origin => ~pixel.result.escaped)
           /\ (~pixel.result.escaped
                 => /\ ~pixel.result.smoothed
                    /\ pixel.result.value = Exact(Num(pixel.maxIterations)))

\* The cap-independent part of an evaluation
SameEscape(a, b) ==
    /\ a.escaped = b.escaped /\ a.steps = b.steps /\ a.z = b.z
    /\ a.iterCount = b.iterCount /\ a.smoothed = b.smoothed /\ a.value = b.value

\* The colour a variant draws for a member of the set
BlackOf(variant) ==
    IF variant = "cpu" THEN <<"#000000">> ELSE <<Num(0), Num(0), Num(0), Num(1)>>

\* ------------------------------------------------------------------------
\* C12  Zero cap: with maxIterations = 0 every evaluator performs no
\* recurrence step, returns 0 and applies no smoothing, whatever c is.
\* ------------------------------------------------------------------------
C12_ZeroCap ==
    (DrawnBy(Variants) /\ pixel.maxIterations = 0)
        => /\ pixel.result.steps = 0
           /\ pixel.result.z = Origin
           /\ ~pixel.result.smoothed
           /\ pixel.result.value = Exact(Num(0))

C12_Witness ==
    /\ DrawnBy({"shader"}) /\ pixel.maxIterations = 0 /\ pixel.c = <<Num(3), Num(0)>>
    /\ pixel.result.value = Exact(Num(0))

\* ------------------------------------------------------------------------
\* C13  Escape monotonicity: when the evaluation of c under cap M ends in an
\* escape, the evaluation under every cap M' >= M ends in the escape at the
\* same step with the same z and returns the same value.
\* ------------------------------------------------------------------------
C13_EscapeMonotone ==
    (DrawnBy(Variants) /\ pixel.result.escaped)
        => \A cap \in pixel.maxIterations..(MaxCap + 2), undef \in UndefinedFloats :
              SameEscape(Evaluate(pixel.variant, pixel.c, cap, undef), pixel.result)

C13_Witness ==
    /\ DrawnBy({"shader"}) /\ pixel.c = <<Num(-1), Num(1)>> /\ pixel.maxIterations = 3
    /\ pixel.result.escaped /\ pixel.result.steps = 3
    /\ pixel.result.value = Within(Num(2), Num(3))

\* ------------------------------------------------------------------------
\* C14  Known escape: with maxIterations >= 1, c = 3 escapes on the first
\* recurrence step (z = 3, loop index 0 in the shader) and is not drawn as a
\* member of the set; for c = 2 the first step is not an escape.
\* ------------------------------------------------------------------------
C14_KnownEscape ==
    (DrawnBy({"shader", "cpu"}) /\ pixel.maxIterations >= 1)
        => /\ pixel.c = <<Num(3), Num(0)>>
                => /\ pixel.result.escaped
                   /\ pixel.result.steps = 1
                   /\ pixel.result.z = <<Num(3), Num(0)>>
                   /\ (pixel.variant = "shader" => pixel.result.iterCount = 0)
                   /\ pixel.colour.branch # "black"
           /\ pixel.c = <<Num(2), Num(0)>>
                => ~(pixel.result.escaped /\ pixel.result.steps = 1)

\* ------------------------------------------------------------------------
\* C15  Colour mapper membership rule: whatever the scheme and the cap, a
\* value >= maxIterations is drawn solid opaque black and a value
\* < maxIterations is drawn by the selected scheme from t = value / cap.
\* ------------------------------------------------------------------------
C15_MembershipRule ==
    DrawnBy({"shader", "cpu"})
        => /\ RealGe(pixel.result.value, Num(pixel.maxIterations))
                => /\ pixel.colour.branch = "black"
                   /\ pixel.colour.color = BlackOf(pixel.variant)
           /\ RealLt(pixel.result.value, Num(pixel.maxIterations))
                => /\ pixel.colour.branch = pixel.colorScheme
                   /\ pixel.colour.t = RealDiv(pixel.result.value, Num(pixel.maxIterations))

C18_FailFast ==
    (app.phase # "loading" /\ app.gl \in {"getContext", "compileShader", "linkProgram"})
        => /\ app.phase = "failed"
           /\ app.error # ""
           /\ ~app.listeners
           /\ renderer = null
           /\ frames = <<>>
           /\ steps = 0

C18_Witness ==
    /\ app.phase = "failed" /\ app.gl = "linkProgram"
    /\ app.error = "Could not link program"
    /\ ~app.listeners /\ frames = <<>>

\* ------------------------------------------------------------------------
\* C19  Mode switch cancels selection: a switch of the mode during a
\* selection drag leaves no selection start behind, and no release of the
\* button zooms to a selection whose start was recorded before a switch.
\* ------------------------------------------------------------------------
C19_ModeSwitchCancels ==
    /\ (/\ lastOp.op = "mode" /\ interactionMode # pre.interactionMode
        /\ pre.isDragging /\ pre.selectionStart # null)
          => selectionStart = null
    /\ (lastOp.op = "mouseup" /\ pre.selectionStart # null /\ frames # <<>>)
          => ~lastOp.switched

\* The release that zooms to a selection started before two switches
C19_StaleZoom ==
    /\ lastOp.op = "mouseup" /\ lastOp.switched
    /\ pre.selectionStart # null /\ frames # <<>>
    /\ renderer.zoom # pre.renderer.zoom

\* ------------------------------------------------------------------------
\* C20  updateConfig merge: updateConfig(partial) replaces exactly the
\* fields of the configuration that partial holds (the colour scheme by its
\* enum value), keeps the others and leaves centre and zoom as they were.
\* ------------------------------------------------------------------------
C20_UpdateConfigMerge ==
    lastOp.op = "updateConfig"
        => /\ DOMAIN renderer.config = {"maxIterations", "colorScheme"}
           /\ renderer.config.maxIterations =
                 IF "maxIterations" \in DOMAIN lastOp.d
                 THEN lastOp.d.maxIterations
                 ELSE pre.renderer.config.maxIterations
           /\ renderer.config.colorScheme =
                 IF "colorScheme" \in DOMAIN lastOp.d
                 THEN getColorSchemeEnum(lastOp.d.colorScheme)
                 ELSE pre.renderer.config.colorScheme
           /\ getViewport(renderer) = getViewport(pre.renderer)

C20_Witness ==
    /\ lastOp.op = "updateConfig"
    /\ lastOp.d = [maxIterations |-> 50]
    /\ pre.renderer.config = [maxIterations |-> 100, colorScheme |-> Fire]
    /\ renderer.config = [maxIterations |-> 50, colorScheme |-> Fire]
    /\ renderer.zoom # Num(1)

\* The last event zoomed: a wheel event, or the release of a selection
\* larger than the dead-zone.
Zoomed ==
    \/ lastOp.op = "wheel"
    \/ SelectionReleased /\ selectionLargeEnough(SelectionWidth, SelectionHeight)

\* ------------------------------------------------------------------------
\* C21  Non-atomic viewport update: updateViewport replaces the centre only
\* and renders once, updateZoom replaces the zoom only and renders once; a
\* wheel zoom or a zoom-to-selection renders exactly twice, first the new
\* centre with the old zoom, then the new centre with the new zoom, and
\* ends in the state of updateViewport followed by updateZoom.
\* ------------------------------------------------------------------------
C21_TwoRenders ==
    /\ lastOp.op = "updateViewport"
          => /\ Centre(renderer) = lastOp.d
             /\ renderer.zoom = pre.renderer.zoom
             /\ renderer.config = pre.renderer.config
             /\ frames = <<Uniforms(renderer)>>
    /\ lastOp.op = "updateZoom"
          => /\ renderer.zoom = lastOp.d
             /\ Centre(renderer) = Centre(pre.renderer)
             /\ renderer.config = pre.renderer.config
             /\ frames = <<Uniforms(renderer)>>
    /\ Zoomed
          => /\ Len(frames) = 2
             /\ frames[1].viewportCenter = Centre(renderer)
             /\ frames[1].zoom = pre.renderer.zoom
             /\ frames[2].viewportCenter = Centre(renderer)
             /\ frames[2].zoom = renderer.zoom
             /\ renderer = updateZoom(updateViewport(pre.renderer, renderer.viewportX,
                                                     renderer.viewportY),
                                      renderer.zoom)

C21_Witness ==
    /\ lastOp.op = "wheel"
    /\ Len(frames) = 2
    /\ frames[1].viewportCenter # Centre(pre.renderer)
    /\ frames[1].zoom = Num(150) /\ frames[2].zoom = Num(180)
    /\ frames[1].resolution # frames[2].resolution

C23_DragGating ==
    /\ lastOp.op = "mousemove" /\ ~(pre.isDragging /\ pre.interactionMode = Pan)
          => /\ getViewport(renderer) = getViewport(pre.renderer)
             /\ frames = <<>>
    /\ lastOp.op \in {"mouseup", "mouseupWindow"} => ~isDragging
    /\ lastOp.op = "init" => ~isDragging
    /\ isDragging /\ lastOp.op # "mousedown" => pre.isDragging

C23_Witness ==
    /\ lastOp.op = "mousemove"
    /\ ~pre.isDragging /\ pre.interactionMode = Pan
    /\ <<lastOp.x, lastOp.y>> # <<pre.lastX, pre.lastY>>
    /\ Centre(pre.renderer) # Centre(NewRenderer(InitialConfig, InitialDisplay[1], InitialDisplay[2]))
    /\ getViewport(renderer) = getViewport(pre.renderer)

\* The last event moved the pointer over the canvas of the page that has the
\* coordinate tooltip.
TooltipMoved == lastOp.op = "mousemove" /\ wheelForm = "relative"

\* ------------------------------------------------------------------------
\* C24  Screen-to-complex Y inversion: on a valid viewport the tooltip shows
\* for the pointer at (px, py) the imaginary part
\* centerY + (0.5 - py / height) * rangeY, which is the coordinate the
\* renderer draws at that pixel, and the top row of the canvas has the
\* largest imaginary part.
\* ------------------------------------------------------------------------
C24_TooltipInvertsY ==
    TooltipMoved /\ ValidViewport(renderer)
        => /\ tooltip.imag
                = Add(renderer.viewportY,
                      Mul(Sub(Frac(1, 2), Div(Num(lastOp.y), Num(renderer.clientHeight))),
                          Div(Num(2), renderer.zoom)))
           /\ <<tooltip.real, tooltip.imag>>
                = ShaderCoordinate(renderer, Num(lastOp.x), Num(lastOp.y))
           /\ Le(tooltip.imag, screenToComplex(renderer, lastOp.x, 0).imag)

\* The tooltip of a pointer in the upper half of the canvas shows a negative
\* imaginary part for the initial view, whose centre is on the real axis.
C24_UpperHalfNegative ==
    /\ TooltipMoved
    /\ lastOp.y < renderer.clientHeight \div 2
    /\ renderer.viewportY = Num(0) /\ renderer.zoom = Num(1)
    /\ Lt(tooltip.imag, Num(0))
    /\ Gt(ShaderCoordinate(renderer, Num(lastOp.x), Num(lastOp.y))[2], Num(0))

\* ------------------------------------------------------------------------
\* C25  Selection rectangle lifetime: a selection rectangle exists only
\* while a drag is in progress and the mode is Select; after a pointer-up
\* (on the canvas or on the window alone), after a change of the mode and
\* after resetView there is none.
\* ------------------------------------------------------------------------
C25_RectangleLifetime ==
    /\ selectionRect # null => isDragging /\ interactionMode = Select
    /\ lastOp.op \in {"mouseup", "mouseupWindow", "mode", "resetView"}
          => selectionRect = null

C25_Witness ==
    /\ lastOp.op \in {"mouseup", "mouseupWindow", "mode", "resetView"}
    /\ pre.selectionRect # null /\ pre.selectionRect[3] > 0
    /\ selectionRect = null

\* The bytes the canvas-2d renderer writes for iteration count i under the
\* configuration of the followed pixel
CpuBytes(i) ==
    pixelData(cpuGetColor(i, [maxIterations |-> pixel.maxIterations,
                              colorScheme |-> pixel.colorScheme]).color)

\* ------------------------------------------------------------------------
\* C26  CPU colour range: in the canvas-2d renderer, for maxIterations >= 1
\* and the Grayscale and Fire schemes, every iteration count in
\* 0..maxIterations, that of the drawn pixel included, is written as three
\* integers in 0..255 with alpha 255, equal to each other in Grayscale, and
\* no channel decreases as the iteration count grows below the cap.
\* ------------------------------------------------------------------------
C26_CpuColourRange ==
    DrawnBy({"cpu"}) /\ pixel.maxIterations >= 1
                     /\ pixel.colorScheme \in {"grayscale", "fire"}
        => /\ pixel.data = CpuBytes(pixel.result.iterCount)
           /\ pixel.result.iterCount \in 0..pixel.maxIterations
           /\ \A i \in 0..pixel.maxIterations :
                 /\ \A k \in 1..3 : CpuBytes(i)[k] \in 0..255
                 /\ CpuBytes(i)[4] = 255
                 /\ pixel.colorScheme = "grayscale"
                       => CpuBytes(i)[1] = CpuBytes(i)[2] /\ CpuBytes(i)[2] = CpuBytes(i)[3]
           /\ \A i \in 0..(pixel.maxIterations - 2) :
                 \A k \in 1..3 : CpuBytes(i)[k] <= CpuBytes(i + 1)[k]

C26_Witness ==
    /\ DrawnBy({"cpu"}) /\ pixel.maxIterations = MaxCap
    /\ pixel.colorScheme = "fire"
    /\ pixel.result.iterCount \in 1..(pixel.maxIterations - 1)
    /\ pixel.data[1] = 255 /\ pixel.data[2] < 255 /\ pixel.data[4] = 255

\* The orbit of c followed for n further steps from the record o of its
\* point z and index k, or up to the first point with |z|^2 > 4.
RECURSIVE Orbit(_, _, _)
Orbit(c, o, n) ==
    IF n <= 0 \/ Gt(dot(o.z), EscapeThreshold) THEN o
    ELSE IF n = 1 THEN [z |-> zSquaredPlusC(o.z, c), k |-> o.k + 1]
    ELSE Orbit(c, Orbit(c, o, n \div 2), n - n \div 2)

\* The number of recurrence steps after which the evaluation of c under the
\* cap maxIter is to stop: the index of the first point of the orbit with
\* |z|^2 > 4, or maxIter when there is none among the first maxIter.
StopStep(c, maxIter) == Orbit(c, [z |-> <<Num(0), Num(0)>>, k |-> 0], maxIter).k

\* ------------------------------------------------------------------------
\* C27  Evaluator termination: for maxIterations >= 0 the loop of the
\* renderer's shader and of the canvas-2d renderer ends after at most
\* maxIterations recurrence steps, at the first step whose result has
\* |z|^2 > 4 and otherwise after exactly maxIterations steps, for every
\* configured cap, those above 1000 included.
\* ------------------------------------------------------------------------
C27_CapHonoured ==
    DrawnBy({"shader", "cpu"}) /\ pixel.maxIterations >= 0
        => /\ pixel.result.steps <= pixel.maxIterations
           /\ pixel.result.steps = StopStep(pixel.c, pixel.maxIterations)
           /\ pixel.result.escaped <=> Gt(dot(pixel.result.z), EscapeThreshold)

\* The shader stops at its loop limit under a cap above it, the orbit still
\* bounded.
C27_StoppedAtLoopLimit ==
    /\ DrawnBy({"shader"}) /\ pixel.maxIterations > LoopLimit
    /\ pixel.result.steps = LoopLimit /\ ~pixel.result.escaped
    /\ ~Gt(dot(pixel.result.z), EscapeThreshold)
    /\ pixel.colour.branch # "black"

\* The last event moved the pointer within a Pan-mode drag that nothing but
\* pointer-moves has interrupted since its pointer-down.
PanDragMoved ==
    /\ lastOp.op = "mousemove" /\ lastOp.drag # null
    /\ interactionMode = Pan

\* ------------------------------------------------------------------------
\* C28  Drag telescoping: within one Pan-mode drag, zoom and canvas size
\* unchanged, the centre after any sequence of pointer-moves is that of a
\* single pan by (pointer - pointer-down position) from the centre at the
\* pointer-down; with the pointer back at the pointer-down position the
\* centre is the original one.
\* ------------------------------------------------------------------------
C28_DragTelescopes ==
    PanDragMoved
        => LET down == lastOp.drag
               once == pan(down.renderer, lastOp.x - down.x, lastOp.y - down.y)
           IN  /\ isDragging
               /\ renderer.zoom = down.renderer.zoom
               /\ renderer.canvasWidth = down.renderer.canvasWidth
               /\ renderer.canvasHeight = down.renderer.canvasHeight
               /\ Centre(renderer) = Centre(once)
               /\ <<lastOp.x, lastOp.y>> = <<down.x, down.y>>
                      => Centre(renderer) = Centre(down.renderer)

C28_Witness ==
    /\ PanDragMoved
    /\ <<lastOp.x, lastOp.y>> = <<lastOp.drag.x, lastOp.drag.y>>
    /\ Centre(pre.renderer) # Centre(lastOp.drag.renderer)
    /\ Centre(renderer) = Centre(lastOp.drag.renderer)

\* The fraction of the visible rectangle, per axis, by which pan(dx, dy)
\* moves the centre of r
PanFraction(r, dx, dy) ==
    LET visibleHeight == Div(Num(2), r.zoom)
        visibleWidth == Mul(visibleHeight, Div(Num(r.canvasWidth), Num(r.canvasHeight)))
        p == pan(r, dx, dy)
    IN  <<Div(Sub(p.viewportX, r.viewportX), visibleWidth),
          Div(Sub(p.viewportY, r.viewportY), visibleHeight)>>

\* The renderer of the same display size drawn at resolution factor 1.0
AtFactorOne(r) == render([r EXCEPT !.zoom = Num(1)])

\* ------------------------------------------------------------------------
\* C29  Pan independent of the internal resolution: for a fixed display
\* size, a pan by a pointer delta in display pixels moves the centre by the
\* same fraction of the visible rectangle whether the resolution factor is
\* 1.0 or greater.
\* ------------------------------------------------------------------------
C29_PanIgnoresResolution ==
    Panned /\ ValidViewport(pre.renderer)
        => /\ Centre(renderer) = Centre(pan(pre.renderer, PanDX, PanDY))
           /\ PanFraction(pre.renderer, PanDX, PanDY)
                = PanFraction(AtFactorOne(pre.renderer), PanDX, PanDY)

\* A pan at a resolution factor above 1.0 that moves the centre by a smaller
\* fraction of the view than the same pointer delta at factor 1.0
C29_BackingSizeLeaks ==
    /\ Panned /\ ValidViewport(pre.renderer) /\ PanDX > 0
    /\ pre.renderer.canvasWidth > pre.renderer.clientWidth
    /\ AtFactorOne(pre.renderer).canvasWidth = pre.renderer.clientWidth
    /\ Centre(renderer) = Centre(pan(pre.renderer, PanDX, PanDY))
    /\ Lt(abs(PanFraction(pre.renderer, PanDX, PanDY)[1]),
          abs(PanFraction(AtFactorOne(pre.renderer), PanDX, PanDY)[1]))

\* ------------------------------------------------------------------------
\* C30  Release outside the canvas: in Select mode a pointer-up delivered to
\* the window alone discards the selection, whatever its size, leaves the
\* viewport as it was, renders nothing and ends the drag.  A pointer-up on
\* the canvas is handled by the canvas listener before the window listener
\* clears the selection: a selection larger than the dead-zone zooms once,
\* by the factor of the selection, and then the selection is gone and the
\* drag has ended.
\* ------------------------------------------------------------------------
C30_ReleaseOutside ==
    /\ lastOp.op = "mouseupWindow" /\ pre.interactionMode = Select
          => /\ renderer = pre.renderer
             /\ frames = <<>>
             /\ ~isDragging
             /\ selectionStart = null /\ selectionRect = null
    /\ SelectionReleased /\ selectionLargeEnough(SelectionWidth, SelectionHeight)
          => /\ Len(frames) = 2
             /\ frames[2].zoom = renderer.zoom
             /\ renderer.zoom
                  = Mul(pre.renderer.zoom,
                        selectionZoomFactor(pre.renderer, pre.selectionStart[1],
                                            pre.selectionStart[2], lastOp.x, lastOp.y))
             /\ ~isDragging
             /\ selectionStart = null /\ selectionRect = null

C30_Witness ==
    /\ lastOp.op = "mouseupWindow" /\ pre.interactionMode = Select
    /\ pre.isDragging /\ pre.selectionStart # null
    /\ pre.selectionRect # null
    /\ selectionLargeEnough(pre.selectionRect[3], pre.selectionRect[4])
    /\ renderer = pre.renderer /\ ~isDragging /\ selectionStart = null

====
